---- MODULE Spec2Model ----
(***************************************************************************)
(* Model of src/main.py: the survey-sheet pipeline                         *)
(*   read_excel_file -> check_table_structure -> calculate_sumproduct /    *)
(*   calculate_deficiency_totals -> aggregation in process_multiple_files. *)
(*                                                                         *)
(* A DataFrame is a grid: a sequence of column labels and a sequence of    *)
(* rows of cells.  A cell (and every number computed from cells) is a      *)
(* record [k, num, den, s, pad]:                                           *)
(*   k = "num"  the rational num/den (den > 0, lowest terms)               *)
(*   k = "nan"  a missing value (NaN)                                      *)
(*   k = "pinf" / "ninf"  the floating point infinities                    *)
(*   k = "str"  the text s followed by pad blanks                          *)
(* The Cyrillic labels of the source are written in Latin transliteration. *)
(***************************************************************************)
EXTENDS Integers, Sequences, FiniteSets

VARIABLES files, pc, idx, disciplines_list, deficiencies_list, numeric_data,
          first_table, log, printed, all_disciplines, all_deficiencies, saved

vars == <<files, pc, idx, disciplines_list, deficiencies_list, numeric_data,
          first_table, log, printed, all_disciplines, all_deficiencies, saved>>

\* ------------------------------------------------------------------ bounds

\* the longest list of files glob.glob hands to the loop
MaxFiles == 3

\* ------------------------------------------------------- program constants

\* len(DISCIPLINES); the rows df.iloc[3:16]
NumDisciplines == 13
\* len(deficiency_columns) of the calculators
NumWeighted == 7
\* len(deficiency_columns) of check_table_structure; len(DEFICIENCIES)
NumChecked == 6
\* the minimum number of columns, and the columns kept by df.iloc[:16, :9]
MinColumns == 9
\* the minimum number of rows, and the rows kept by df.iloc[:16, :9]
MinRows == 16
\* the largest value between(0, 10) accepts
MaxScore == 10

DEFICIENCIES ==
  << "Nizkie trebovaniya",
     "Net komandnyh rabot",
     "Neaktualnye znaniya",
     "Prepodavatel bez opyta",
     "Ne idti na kontakt",
     "Ne pooshchryat tvorcheskij podhod" >>

DISCIPLINES ==
  << "Bezopasnost zhiznedeyatelnosti",
     "Matematicheskij analiz",
     "Algebra",
     "Programmirovanie",
     "Diskretnaya matematika",
     "Proforientacionnyj seminar",
     "Proektnyj seminar",
     "Praktikum po tehdokumentacii",
     "Teoreticheskie osnovy informatiki",
     "Istoriya Rossii",
     "Osnovy rossijskoj gosudarstvennosti",
     "Anglijskij yazyk",
     "Pravovaya gramotnost" >>

\* DEF (a reserved word here, hence DEF_list) = ['Mnogo teorii, no malo praktiki.'] + DEFICIENCIES
DEF_list == << "Mnogo teorii, no malo praktiki." >> \o DEFICIENCIES

expected_columns ==
  << "Unnamed: 0", "Unnamed: 1", "Nedostatok", "Unnamed: 3", "Unnamed: 4",
     "Unnamed: 5", "Unnamed: 6", "Unnamed: 7", "Unnamed: 8" >>

\* deficiency_columns as check_table_structure defines it (6 columns)
checked_columns ==
  << "Unnamed: 3", "Unnamed: 4", "Unnamed: 5", "Unnamed: 6", "Unnamed: 7",
     "Unnamed: 8" >>

\* deficiency_columns as the calculators and the loop define it (7 columns)
deficiency_columns == << "Nedostatok" >> \o checked_columns

expected_nb == "NB! Vse chisla - polozhitelnye!"

\* ------------------------------------------------------------ cell values

Abs(n) == IF n < 0 THEN -n ELSE n

RECURSIVE Gcd(_, _)
Gcd(a, b) == IF b = 0 THEN a ELSE Gcd(b, a % b)

\* the number n/d (d > 0) in lowest terms
Num(n, d) ==
  IF d = 1 THEN [k |-> "num", num |-> n, den |-> 1, s |-> "", pad |-> 0]
  ELSE LET g == Gcd(Abs(n), d)
       IN  [k |-> "num", num |-> n \div g, den |-> d \div g, s |-> "", pad |-> 0]

Int2(n) == Num(n, 1)
NaN == [k |-> "nan", num |-> 0, den |-> 1, s |-> "", pad |-> 0]
PInf == [k |-> "pinf", num |-> 0, den |-> 1, s |-> "", pad |-> 0]
NInf == [k |-> "ninf", num |-> 0, den |-> 1, s |-> "", pad |-> 0]
Text(t, p) == [k |-> "str", num |-> 0, den |-> 1, s |-> t, pad |-> p]

IsNum(x) == x.k = "num"
\* pd.isna / Series.isna
IsNa(x) == x.k = "nan"

\* float addition and multiplication: NaN propagates
FAdd(a, b) ==
  IF IsNum(a) /\ IsNum(b)
  THEN Num(a.num * b.den + b.num * a.den, a.den * b.den)
  ELSE NaN

FMul(a, b) ==
  IF IsNum(a) /\ IsNum(b) THEN Num(a.num * b.num, a.den * b.den) ELSE NaN

\* a / b of two floats that holds no exception: x/0 is an infinity, 0/0 NaN
FDiv(a, b) ==
  IF ~(IsNum(a) /\ IsNum(b)) THEN NaN
  ELSE IF b.num = 0
       THEN (IF a.num = 0 THEN NaN ELSE IF a.num > 0 THEN PInf ELSE NInf)
  ELSE IF b.num > 0 THEN Num(a.num * b.den, a.den * b.num)
  ELSE Num(-(a.num * b.den), a.den * (-b.num))

\* a < b, a <= b on floats: every comparison with NaN is False
FLt(a, b) == IsNum(a) /\ IsNum(b) /\ a.num * b.den < b.num * a.den
FLe(a, b) == IsNum(a) /\ IsNum(b) /\ a.num * b.den <= b.num * a.den

\* the texts that parse as numbers, with the number each parses to
NumericText ==
  [t \in {"0", "1", "2", "3", "5", "7", "10"} |->
     CASE t = "0" -> 0 [] t = "1" -> 1 [] t = "2" -> 2 [] t = "3" -> 3
       [] t = "5" -> 5 [] t = "7" -> 7 [] t = "10" -> 10]

\* pd.to_numeric(x, errors='coerce') of one cell
to_numeric(x) ==
  CASE x.k = "str" ->
         (IF x.pad = 0 /\ x.s \in DOMAIN NumericText
          THEN Int2(NumericText[x.s]) ELSE NaN)
    [] OTHER -> x

\* str(x).strip() of one cell; the text of a number or of NaN is no label
str_strip(x) ==
  CASE x.k = "str" -> x.s
    [] x.k = "nan" -> "nan"
    [] OTHER -> "<number>"

\* ------------------------------------------------------------- sequences

RECURSIVE SumSeq(_)
\* sum(...) of a sequence of floats, left to right from 0
SumSeq(sq) ==
  IF sq = <<>> THEN Int2(0)
  ELSE FAdd(SumSeq(SubSeq(sq, 1, Len(sq) - 1)), sq[Len(sq)])

\* Series.sum / mean / std skip missing values (skipna=True)
NotNa(sq) == SelectSeq(sq, LAMBDA x : ~IsNa(x))

\* ----------------------------------------------------- the files on disk

(* A file of the input directory is described by what its sheet holds:
     readable   pd.read_excel succeeds on it
     ncols, nrows   the size of the sheet (without its header row)
     hdr   "ok" | "bad": the header of the third column is missing
     lab   "ok" | "pad" (a trailing blank after each label) | "bad"
     mark  "ok" | "bad": the note cell of row 0
     imp   "ok" | "nan" | "high" | "text": the weights of 'Unnamed: 3'..'Unnamed: 8'
     ord   "ok" | "bad": the discipline numbers of the first column
     sc    "ok" | "nan" | "high": the scores of 'Unnamed: 3'..'Unnamed: 8'
     w7    "ok" | "nan" | "high" | "neg": the weight of column 'Nedostatok'
     s7    "ok" | "nan" | "high": the scores of column 'Nedostatok'
     wv, sv   which weights and which scores the sheet holds                  *)

Weight(wv, j) ==
  CASE wv = "w10" -> 10
    [] wv = "w0" -> 0
    [] wv = "w2" -> (IF j <= 2 THEN 10 ELSE 0)
    [] OTHER -> <<3, 10, 0, 7, 1, 5, 2>>[j]

Score(sv, i, j) ==
  CASE sv = "s5" -> 5
    [] sv = "s10" -> 10
    [] sv = "salt" -> ((i + j) % 4) * 3
    [] OTHER -> (i * 3 + j * 5) % 11

NumberText(n) == CHOOSE t \in DOMAIN NumericText : NumericText[t] = n

all_columns == expected_columns \o << "Unnamed: 9" >>

\* the cell of row r (0-based, as df.iloc[r]) and column c (1-based) of f's sheet
SheetCell(f, r, c) ==
  LET j == c - 2  \* the weighted column held by column c: 1..7 for c in 3..9
  IN
  CASE r = 0 /\ c = 2 ->
         (IF f.mark = "ok" THEN Text(expected_nb, 1) ELSE Text("NB!", 0))
    [] r = 0 /\ c = 3 -> Text(DEF_list[1], 0)
    [] r = 0 /\ c \in 4..9 ->
         (IF f.lab = "bad" /\ c = 5 THEN Text("Drugoj nedostatok", 0)
          ELSE Text(DEFICIENCIES[c - 3], IF f.lab = "pad" THEN 1 ELSE 0))
    [] r = 1 /\ c = 3 ->
         (CASE f.w7 = "nan" -> NaN
            [] f.w7 = "high" -> Int2(MaxScore + 1)
            [] f.w7 = "neg" -> Int2(-10)
            [] OTHER -> Int2(Weight(f.wv, 1)))
    [] r = 1 /\ c \in 4..9 ->
         (CASE f.imp = "nan" /\ c = 6 -> Text("n/a", 0)
            [] f.imp = "high" /\ c = 6 -> Int2(MaxScore + 1)
            [] f.imp = "text" -> Text(NumberText(Weight(f.wv, j)), 0)
            [] OTHER -> Int2(Weight(f.wv, j)))
    [] r = 2 /\ c = 2 -> Text("Disciplina", 0)
    [] r \in 3..15 /\ c = 1 ->
         (IF f.ord = "bad" /\ r = 5 THEN Int2(r) ELSE Int2(r - 2))
    [] r \in 3..15 /\ c = 2 -> Text(DISCIPLINES[r - 2], 0)
    [] r \in 3..15 /\ c = 3 ->
         (CASE f.s7 = "nan" /\ r = 7 -> NaN
            [] f.s7 = "high" /\ r = 7 -> Int2(MaxScore + 1)
            [] OTHER -> Int2(Score(f.sv, r - 2, 1)))
    [] r \in 3..15 /\ c \in 4..9 ->
         (CASE f.sc = "nan" /\ r = 9 /\ c = 8 -> NaN
            [] f.sc = "high" /\ r = 9 /\ c = 8 -> Int2(MaxScore + 1)
            [] OTHER -> Int2(Score(f.sv, r - 2, j)))
    [] OTHER -> NaN

\* the DataFrame pd.read_excel makes of f's sheet
Sheet(f) ==
  [columns |->
     [c \in 1..f.ncols |->
        IF c = 3 /\ f.hdr = "bad" THEN "Unnamed: 2" ELSE all_columns[c]],
   rows |-> [r \in 1..f.nrows |-> [c \in 1..f.ncols |-> SheetCell(f, r - 1, c)]]]

Good ==
  [readable |-> TRUE, ncols |-> 9, nrows |-> 16, hdr |-> "ok", lab |-> "ok",
   mark |-> "ok", imp |-> "ok", ord |-> "ok", sc |-> "ok", w7 |-> "ok",
   s7 |-> "ok", wv |-> "wmix", sv |-> "svar"]

\* two valid sheets with weights 10, 10, 0, 0, 0, 0, 0: every discipline total
\* is 100 in the first (all scores 5) and 200 in the second (all scores 10)
ExampleFiles ==
  { [Good EXCEPT !.wv = "w2", !.sv = "s5"],
    [Good EXCEPT !.wv = "w2", !.sv = "s10"] }

\* files that cannot be read or fail a check
RejectedFiles ==
  { [Good EXCEPT !.readable = FALSE],
    [Good EXCEPT !.hdr = "bad"] }

\* sheets that pass every check with all weights 0, or with no weight in
\* column 'Nedostatok'
OddFiles ==
  { [Good EXCEPT !.wv = "w0"],
    [Good EXCEPT !.w7 = "nan"] }

\* one sheet for every combination of violated checks
ViolationFiles ==
  { [Good EXCEPT !.ncols = nc, !.nrows = nr, !.hdr = h, !.lab = l, !.mark = m,
                 !.imp = im, !.ord = o, !.sc = s] :
      nc \in {8, 9, 10}, nr \in {15, 16, 17}, h \in {"ok", "bad"},
      l \in {"ok", "pad", "bad"}, m \in {"ok", "bad"},
      im \in {"ok", "nan", "high"}, o \in {"ok", "bad"},
      s \in {"ok", "nan", "high"} }

\* sheets that differ in their numbers only
NumberFiles ==
  { [Good EXCEPT !.wv = w, !.sv = s, !.w7 = w7, !.s7 = s7, !.imp = im] :
      w \in {"w10", "w0", "w2", "wmix"}, s \in {"s5", "s10", "salt", "svar"},
      w7 \in {"ok", "nan", "high", "neg"}, s7 \in {"ok", "nan", "high"},
      im \in {"ok", "text"} }

RECURSIVE SeqsUpTo(_, _)
\* the sequences over S of length at most n
SeqsUpTo(S, n) ==
  IF n = 0 THEN { <<>> }
  ELSE LET shorter == SeqsUpTo(S, n - 1)
       IN  shorter \cup { Append(q, x) : q \in shorter, x \in S }

\* ------------------------------------------------------------ DataFrames

\* the position of the column labelled name
Col(df, name) == CHOOSE c \in 1..Len(df.columns) : df.columns[c] = name

\* df.iloc[r][cols]: the cells of row r (0-based) under the labels cols
RowAt(df, r, cols) == [j \in 1..Len(cols) |-> df.rows[r + 1][Col(df, cols[j])]]

\* the 0-based rows df.iloc[3:16] selects
BodyRows(df) ==
  [n \in 1..(IF Len(df.rows) < MinRows THEN Len(df.rows) - 3
             ELSE NumDisciplines) |-> n + 2]

\* pd.to_numeric(df.iloc[1][cols], errors='coerce')
ImportanceOf(df, cols) ==
  LET row == RowAt(df, 1, cols) IN [j \in 1..Len(cols) |-> to_numeric(row[j])]

\* df.iloc[3:16][cols].apply(pd.to_numeric, errors='coerce'), row by row
ScoresOf(df, cols) ==
  LET body == BodyRows(df)
  IN  [n \in 1..Len(body) |->
         LET row == RowAt(df, body[n], cols)
         IN  [j \in 1..Len(cols) |-> to_numeric(row[j])]]

\* importance.between(0, 10) of one value
Between(x) == FLe(Int2(0), x) /\ FLe(x, Int2(MaxScore))

\* df.iloc[:16, :9]
Truncate(df) ==
  [columns |-> SubSeq(df.columns, 1, MinColumns),
   rows |-> [r \in 1..MinRows |-> SubSeq(df.rows[r], 1, MinColumns)]]

\* ------------------------------------------------------- read_excel_file

\* the DataFrame, as a one-element sequence, or <<>> for None
read_excel_file(f) == IF f.readable THEN << Sheet(f) >> ELSE <<>>

\* -------------------------------------------------- check_table_structure

expected_numbers == [n \in 1..NumDisciplines |-> Int2(n)]

\* "ok" for True; otherwise the check whose message is printed before False
check_table_structure_swapped(df) ==
  IF Len(df.columns) < MinColumns THEN "columns"
  ELSE IF Len(df.rows) < MinRows THEN "rows"
  ELSE IF SubSeq(df.columns, 1, MinColumns) # expected_columns THEN "headers"
  ELSE IF str_strip(df.rows[1][Col(df, "Unnamed: 1")]) # expected_nb
    THEN "marker"
  ELSE IF [j \in 1..NumChecked |->
             LET x == RowAt(df, 0, checked_columns)[j]
             IN  IF IsNa(x) THEN "nan" ELSE str_strip(x)] # DEFICIENCIES
    THEN "labels"
  ELSE
  LET importance == ImportanceOf(df, checked_columns)
      body == BodyRows(df)
      discipline_numbers == [n \in 1..Len(body) |-> df.rows[body[n] + 1][1]]
      scores == ScoresOf(df, checked_columns)
  IN
  IF \E j \in 1..NumChecked : IsNa(importance[j]) THEN "importance_nan"
  ELSE IF \E j \in 1..NumChecked : ~Between(importance[j])
    THEN "importance_range"
  ELSE IF discipline_numbers # expected_numbers THEN "numbers"
  ELSE IF \E n \in 1..NumDisciplines, j \in 1..NumChecked : IsNa(scores[n][j])
    THEN "scores_nan"
  ELSE IF \E n \in 1..NumDisciplines, j \in 1..NumChecked : ~Between(scores[n][j])
    THEN "scores_range"
  ELSE "ok"

check_table_structure(df) ==
  IF Len(df.columns) < MinColumns THEN "columns"
  ELSE IF Len(df.rows) < MinRows THEN "rows"
  ELSE IF SubSeq(df.columns, 1, MinColumns) # expected_columns THEN "headers"
  ELSE IF [j \in 1..NumChecked |->
             LET x == RowAt(df, 0, checked_columns)[j]
             IN  IF IsNa(x) THEN "nan" ELSE str_strip(x)] # DEFICIENCIES
    THEN "labels"
  ELSE IF str_strip(df.rows[1][Col(df, "Unnamed: 1")]) # expected_nb
    THEN "marker"
  ELSE
  LET importance == ImportanceOf(df, checked_columns)
      body == BodyRows(df)
      discipline_numbers == [n \in 1..Len(body) |-> df.rows[body[n] + 1][1]]
      scores == ScoresOf(df, checked_columns)
  IN
  IF \E j \in 1..NumChecked : IsNa(importance[j]) THEN "importance_nan"
  ELSE IF \E j \in 1..NumChecked : ~Between(importance[j])
    THEN "importance_range"
  ELSE IF discipline_numbers # expected_numbers THEN "numbers"
  ELSE IF \E n \in 1..NumDisciplines, j \in 1..NumChecked : IsNa(scores[n][j])
    THEN "scores_nan"
  ELSE IF \E n \in 1..NumDisciplines, j \in 1..NumChecked : ~Between(scores[n][j])
    THEN "scores_range"
  ELSE "ok"

\* ------------------------------------------------------------------ rank

RECURSIVE InsertDesc(_, _)
\* x put into the descending sequence sq, after the values equal to it
InsertDesc(x, sq) ==
  IF sq = <<>> THEN << x >>
  ELSE IF FLt(sq[1], x) THEN << x >> \o sq
  ELSE << sq[1] >> \o InsertDesc(x, Tail(sq))

RECURSIVE SortDesc(_)
SortDesc(sq) ==
  IF sq = <<>> THEN <<>> ELSE InsertDesc(sq[1], SortDesc(Tail(sq)))

\* Series.rank(ascending=False, method='dense'): ties share a rank and the
\* next value takes the next rank
rank_dense(vals) ==
  [n \in 1..Len(vals) |->
     IF IsNa(vals[n]) THEN NaN
     ELSE Int2(Cardinality({ vals[m] : m \in { m \in 1..Len(vals) :
                                                  FLe(vals[n], vals[m]) } }))]

\* Series.rank(ascending=False, method='min'): the values sorted in descending
\* order, each value ranked by the first place it takes; NaN stays NaN
rank(vals) ==
  LET sorted == SortDesc(NotNa(vals))
  IN  [n \in 1..Len(vals) |->
         IF IsNa(vals[n]) THEN NaN
         ELSE Int2(CHOOSE p \in 1..Len(sorted) :
                     /\ sorted[p] = vals[n]
                     /\ \A q \in 1..(p - 1) : sorted[q] # vals[n])]

\* .astype(int) raises on NaN
CanCastInt(sq) == \A n \in 1..Len(sq) : IsNum(sq[n])

\* ------------------------------------------------------ the calculators

\* [status |-> "ok", rows |-> the result] or [status |-> "raise"]
calculate_sumproduct(df) ==
  LET importance == ImportanceOf(df, deficiency_columns)
      scores == ScoresOf(df, deficiency_columns)
      discipline_totals ==
        [n \in 1..Len(scores) |->
           SumSeq([j \in 1..NumWeighted |-> FMul(importance[j], scores[n][j])])]
      ranks == rank(discipline_totals)
  IN  IF Len(discipline_totals) # Len(DISCIPLINES) \/ ~CanCastInt(ranks)
      THEN [status |-> "raise", rows |-> <<>>]
      ELSE [status |-> "ok",
            rows |-> [n \in 1..Len(DISCIPLINES) |->
                        [name |-> DISCIPLINES[n],
                         total |-> discipline_totals[n],
                         rank |-> ranks[n].num]]]

\* [status |-> "ok", rows |-> the result], [status |-> "none"] for None, or
\* [status |-> "raise"]
calculate_deficiency_totals(df) ==
  LET importance == ImportanceOf(df, deficiency_columns)
      scores == ScoresOf(df, deficiency_columns)
      deficiency_sums ==
        [j \in 1..NumWeighted |->
           SumSeq(NotNa([n \in 1..Len(scores) |-> scores[n][j]]))]
      weighted_totals ==
        [j \in 1..NumWeighted |-> FMul(deficiency_sums[j], importance[j])]
      ranks == rank(weighted_totals)
  IN  IF \E j \in 1..NumWeighted : IsNa(importance[j])
        THEN [status |-> "none", rows |-> <<>>]
      ELSE IF \E n \in 1..Len(scores), j \in 1..NumWeighted : IsNa(scores[n][j])
        THEN [status |-> "none", rows |-> <<>>]
      ELSE IF ~CanCastInt(ranks) THEN [status |-> "raise", rows |-> <<>>]
      ELSE [status |-> "ok",
            rows |-> [j \in 1..Len(DEF_list) |->
                        [name |-> DEF_list[j],
                         weight |-> importance[j],
                         sum |-> deficiency_sums[j],
                         total |-> weighted_totals[j],
                         rank |-> ranks[j].num]]]

\* ------------------------------------------------------- the file loop

Line(kind, n) == [kind |-> kind, file |-> n]

\* `first_table==None` as the condition of an if: None == None is True; a
\* DataFrame compared with None is a DataFrame, whose truth value raises
first_table_is_None(ft) == IF ft = <<>> THEN "true" ELSE "raise"

\* the state the loop starts from
LoopStart ==
  [first_table |-> <<>>, numeric_data |-> <<>>, disciplines_list |-> <<>>,
   deficiencies_list |-> <<>>, log |-> <<>>, printed |-> <<>>]

\* one iteration of `for i, file_path in enumerate(file_paths)` on file f, the
\* n-th of the list, from the loop state st
LoopBody(st, f, n) ==
  LET read == read_excel_file(f)
      unhandled(s) == [s EXCEPT !.log = Append(@, Line("unhandled", n)),
                                !.printed = Append(@, Line("unhandled", n))]
  IN
  IF read = <<>>
  THEN [st EXCEPT !.log = Append(@, Line("read", n)),
                  !.printed = Append(@, Line("read_error", n))]
  ELSE
  LET check == check_table_structure(read[1]) IN
  IF check # "ok"
  THEN [st EXCEPT !.log = Append(@, Line("structure", n)),
                  !.printed = Append(@, Line(check, n))]
  ELSE
  LET df == Truncate(read[1]) IN
  IF first_table_is_None(st.first_table) = "raise" THEN unhandled(st)
  ELSE
  LET kept == [st EXCEPT
                 !.first_table = << df >>,
                 !.numeric_data =
                    Append(@, [importance |-> ImportanceOf(df, deficiency_columns),
                               scores |-> ScoresOf(df, deficiency_columns)])]
      result_disciplines == calculate_sumproduct(df)
      result_deficiencies == calculate_deficiency_totals(df)
  IN
  IF result_disciplines.status = "raise" THEN unhandled(kept)
  ELSE IF result_deficiencies.status = "none"
    THEN [kept EXCEPT !.log = Append(@, Line("deficiencies", n))]
  ELSE IF result_deficiencies.status = "raise" THEN unhandled(kept)
  ELSE [kept EXCEPT
          !.disciplines_list = Append(@, result_disciplines.rows),
          !.deficiencies_list = Append(@, result_deficiencies.rows)]

RECURSIVE RunLoop(_, _)
\* the loop state after the first n files of fs
RunLoop(fs, n) ==
  IF n = 0 THEN LoopStart ELSE LoopBody(RunLoop(fs, n - 1), fs[n], n)

\* --------------------------------------------------------- aggregation

FNeg(a) == IF IsNum(a) THEN Num(-a.num, a.den) ELSE a

\* mean of a group (missing values skipped)
Mean(sq) ==
  LET v == NotNa(sq)
  IN  IF v = <<>> THEN NaN ELSE FDiv(SumSeq(v), Int2(Len(v)))

\* the square of std of a group (ddof = 1): NaN for fewer than 2 values
StdSquared(sq) ==
  LET v == NotNa(sq)
      m == Mean(sq)
      dev == [n \in 1..Len(v) |-> FMul(FAdd(v[n], FNeg(m)), FAdd(v[n], FNeg(m)))]
  IN  IF Len(v) < 2 THEN NaN ELSE FDiv(SumSeq(dev), Int2(Len(v) - 1))

RECURSIVE Concat(_)
\* pd.concat(list, ignore_index=True): the rows of every table, in order
Concat(list) == IF list = <<>> THEN <<>> ELSE list[1] \o Concat(Tail(list))

RECURSIVE FirstSeen(_)
\* the names of rows in the order each first appears (groupby sort=False)
FirstSeen(rows) ==
  IF rows = <<>> THEN <<>>
  ELSE LET before == FirstSeen(SubSeq(rows, 1, Len(rows) - 1))
           name == rows[Len(rows)].name
       IN  IF \E n \in 1..Len(before) : before[n] = name
           THEN before ELSE Append(before, name)

\* the values of field fld of the rows named name
Group(rows, name, fld) ==
  LET members == SelectSeq(rows, LAMBDA r : r.name = name)
  IN  [n \in 1..Len(members) |-> members[n][fld]]

\* tbl sorted by descending position of its names in catalog
catalog_order_descending(tbl, catalog) ==
  LET present == SelectSeq(catalog, LAMBDA c : \E g \in 1..Len(tbl) : tbl[g].name = c)
  IN  [n \in 1..Len(present) |->
         tbl[CHOOSE g \in 1..Len(tbl) : tbl[g].name = present[Len(present) + 1 - n]]]

\* tbl['order'] = tbl[name].map(position in catalog); sort_values('order')
catalog_order(tbl, catalog) ==
  LET present == SelectSeq(catalog, LAMBDA c : \E g \in 1..Len(tbl) : tbl[g].name = c)
  IN  [n \in 1..Len(present) |->
         tbl[CHOOSE g \in 1..Len(tbl) : tbl[g].name = present[n]]]

\* the ranks of a column as .astype(int) leaves them
RankColumn(vals) == LET r == rank(vals) IN [n \in 1..Len(vals) |-> r[n].num]

\* all_disciplines of process_multiple_files
aggregate_disciplines(list) ==
  LET rows == Concat(list)
      keys == FirstSeen(rows)
      grouped == [g \in 1..Len(keys) |->
                    [name |-> keys[g],
                     mean |-> Mean(Group(rows, keys[g], "total")),
                     std_sq |-> StdSquared(Group(rows, keys[g], "total"))]]
      ordered == catalog_order(grouped, DISCIPLINES)
      ranks == RankColumn([n \in 1..Len(ordered) |-> ordered[n].mean])
  IN  [n \in 1..Len(ordered) |->
         [name |-> ordered[n].name, mean |-> ordered[n].mean,
          std_sq |-> ordered[n].std_sq, rank |-> ranks[n]]]

\* all_deficiencies of process_multiple_files
aggregate_deficiencies(list) ==
  LET rows == Concat(list)
      keys == FirstSeen(rows)
      grouped == [g \in 1..Len(keys) |->
                    [name |-> keys[g],
                     mean_weight |-> Mean(Group(rows, keys[g], "weight")),
                     mean_sum |-> Mean(Group(rows, keys[g], "sum")),
                     mean |-> Mean(Group(rows, keys[g], "total")),
                     std_sq |-> StdSquared(Group(rows, keys[g], "total"))]]
      ordered == catalog_order(grouped, DEF_list)
      ranks == RankColumn([n \in 1..Len(ordered) |-> ordered[n].mean])
  IN  [n \in 1..Len(ordered) |->
         [name |-> ordered[n].name, mean_weight |-> ordered[n].mean_weight,
          mean_sum |-> ordered[n].mean_sum, mean |-> ordered[n].mean,
          std_sq |-> ordered[n].std_sq, rank |-> ranks[n]]]

\* `not disciplines_list or not deficiencies_list or first_table is None`
NothingProcessed_first_table_only(dl, fl, ft) == ft = <<>>

NothingProcessed(dl, fl, ft) == dl = <<>> \/ fl = <<>> \/ ft = <<>>

\* -------------------------------------------------------- the report stage

\* round(x, 2): to the nearest hundredth, halves to the even one
Round2(x) ==
  IF ~IsNum(x) THEN x
  ELSE LET q == x.num * 100
           fl == q \div x.den
           rem == q - fl * x.den
           up == 2 * rem > x.den \/ (2 * rem = x.den /\ fl % 2 = 1)
       IN  Num(IF up THEN fl + 1 ELSE fl, 100)

\* pd.concat(numeric_data).groupby(level=0).mean(): the mean of every weight
\* and of every score over the tables kept in numeric_data
mean_numeric(nd) ==
  [importance |->
     [j \in 1..NumWeighted |-> Mean([e \in 1..Len(nd) |-> nd[e].importance[j]])],
   scores |->
     [n \in 1..NumDisciplines |->
        [j \in 1..NumWeighted |-> Mean([e \in 1..Len(nd) |-> nd[e].scores[n][j]])]]]

\* first_table with the means written to row 1 and rows 3..15 of the 7
\* weighted columns
WithMeans(ft, nd) ==
  LET m == mean_numeric(nd)
      j(c) == CHOOSE w \in 1..NumWeighted : Col(ft, deficiency_columns[w]) = c
      weighted == { Col(ft, deficiency_columns[w]) : w \in 1..NumWeighted }
  IN  [columns |-> ft.columns,
       rows |->
         [r \in 1..Len(ft.rows) |->
            [c \in 1..Len(ft.columns) |->
               IF c \in weighted /\ r = 2 THEN m.importance[j(c)]
               ELSE IF c \in weighted /\ r \in 4..16 THEN m.scores[r - 3][j(c)]
               ELSE ft.rows[r][c]]]]

\* first_table.loc[1, deficiency_columns].sum() * 10
mainabs_rating(ft) ==
  FMul(SumSeq(NotNa(RowAt(ft, 1, deficiency_columns))), Int2(MaxScore))

\* (first_table.loc[r, deficiency_columns] * first_table.loc[1, deficiency_columns]).sum()
abs_rating(ft, r) ==
  LET row == RowAt(ft, r, deficiency_columns)
      weights == RowAt(ft, 1, deficiency_columns)
  IN  SumSeq(NotNa([w \in 1..NumWeighted |-> FMul(row[w], weights[w])]))

\* (abs_rating / mainabs_rating) * 100, where the division yields a float
rel_rating(ft, r) == FMul(FDiv(abs_rating(ft, r), mainabs_rating(ft)), Int2(100))

\* what abs_rating / mainabs_rating can do: a division by zero raises
\* ZeroDivisionError on Python floats and yields nan or an infinity on numpy
\* floats; which of the two the cells of first_table hold is left open
DivisionOutcomes(ft) ==
  IF mainabs_rating(ft).num = 0 THEN {"float", "raise"} ELSE {"float"}

\* first_table after lines 268-288, with the two rating columns of rows 3..15
Report(ft, nd) ==
  LET t == WithMeans(ft, nd)
  IN  [columns |-> t.columns,
       rows |-> t.rows,
       mainabs_rating |-> mainabs_rating(t),
       abs_rating |-> [n \in 1..NumDisciplines |-> Round2(abs_rating(t, n + 2))],
       rel_rating |-> [n \in 1..NumDisciplines |-> Round2(rel_rating(t, n + 2))]]

\* ----------------------------------------------------------------- actions

InitOver(S, n) ==
  /\ files \in SeqsUpTo(S, n)
  /\ pc = "start"
  /\ idx = 0
  /\ disciplines_list = <<>>
  /\ deficiencies_list = <<>>
  /\ numeric_data = <<>>
  /\ first_table = <<>>
  /\ log = <<>>
  /\ printed = <<>>
  /\ all_disciplines = <<>>
  /\ all_deficiencies = <<>>
  /\ saved = <<>>

\* sheets that pass every check and hold valid numbers in all 7 weighted columns
PlainFiles == ExampleFiles \cup { Good }

\* any directory of at most MaxFiles files
Init == InitOver(PlainFiles \cup RejectedFiles \cup OddFiles, MaxFiles)

\* a directory whose accepted sheets are the two of ExampleFiles
InitValid == InitOver(ExampleFiles \cup RejectedFiles, MaxFiles)

\* a directory of at most one file, of any sheet
InitOne == InitOver(ViolationFiles \cup NumberFiles, 1)

\* setup_logging, glob.glob and the check for an empty directory
Discover ==
  /\ pc = "start"
  /\ IF files = <<>>
     THEN /\ log' = Append(log, Line("no_files", 0))
          /\ printed' = Append(printed, Line("no_files", 0))
          /\ pc' = "done"
          /\ idx' = idx
     ELSE /\ pc' = "loop"
          /\ idx' = 1
          /\ UNCHANGED <<log, printed>>
  /\ UNCHANGED <<files, disciplines_list, deficiencies_list, numeric_data,
                 first_table, all_disciplines, all_deficiencies, saved>>

\* one iteration of the loop over file_paths
ProcessFile ==
  /\ pc = "loop"
  /\ idx <= Len(files)
  /\ LET st == LoopBody([first_table |-> first_table,
                         numeric_data |-> numeric_data,
                         disciplines_list |-> disciplines_list,
                         deficiencies_list |-> deficiencies_list,
                         log |-> log, printed |-> printed], files[idx], idx)
     IN  /\ first_table' = st.first_table
         /\ numeric_data' = st.numeric_data
         /\ disciplines_list' = st.disciplines_list
         /\ deficiencies_list' = st.deficiencies_list
         /\ log' = st.log
         /\ printed' = st.printed
  /\ idx' = idx + 1
  /\ UNCHANGED <<files, pc, all_disciplines, all_deficiencies, saved>>

\* the rest of process_multiple_files after the loop: the check that something
\* was processed, the report stage, the aggregation and save_results
Finish ==
  /\ pc = "loop"
  /\ idx > Len(files)
  /\ IF NothingProcessed(disciplines_list, deficiencies_list, first_table)
     THEN /\ log' = Append(log, Line("none_processed", 0))
          /\ printed' = Append(printed, Line("none_processed", 0))
          /\ pc' = "done"
          /\ UNCHANGED <<first_table, all_disciplines, all_deficiencies, saved>>
     ELSE \E outcome \in (IF numeric_data = <<>> THEN {"float"}
                          ELSE DivisionOutcomes(WithMeans(first_table[1], numeric_data))) :
            LET table == IF numeric_data = <<>> THEN first_table[1]
                         ELSE IF outcome = "raise"
                           THEN WithMeans(first_table[1], numeric_data)
                         ELSE Report(first_table[1], numeric_data)
                raised == outcome = "raise" \/ disciplines_list = <<>>
                            \/ deficiencies_list = <<>>
            IN  /\ first_table' = << table >>
                /\ pc' = IF raised THEN "crashed" ELSE "done"
                /\ all_disciplines' =
                     IF outcome = "raise" \/ disciplines_list = <<>> THEN <<>>
                     ELSE aggregate_disciplines(disciplines_list)
                /\ all_deficiencies' =
                     IF raised THEN <<>>
                     ELSE aggregate_deficiencies(deficiencies_list)
                /\ saved' =
                     IF raised THEN <<>>
                     ELSE << [all_disciplines |-> all_disciplines',
                              all_deficiencies |-> all_deficiencies',
                              first_table |-> table] >>
                /\ UNCHANGED <<log, printed>>
  /\ UNCHANGED <<files, idx, disciplines_list, deficiencies_list, numeric_data>>

Next == Discover \/ ProcessFile \/ Finish

Spec == Init /\ [][Next]_vars

SpecValid == InitValid /\ [][Next]_vars

SpecOne == InitOne /\ [][Next]_vars

\* ------------------------------------------------------------ properties

\* file f is read and passes check_table_structure
Accepted(f) == f.readable /\ check_table_structure(Sheet(f)) = "ok"

\* the files the loop has been through
Processed == 1..(idx - 1)

\* the run is over: it returned, or it ended on an exception nothing catches
Ended == pc \in {"done", "crashed"}

\* the result of calculate_sumproduct / calculate_deficiency_totals on f
DisciplinesOf(f) == calculate_sumproduct(Truncate(Sheet(f))).rows
DeficienciesOf(f) == calculate_deficiency_totals(Truncate(Sheet(f))).rows

\* f is accepted and both calculators return a table for it
Computable(f) ==
  /\ Accepted(f)
  /\ calculate_sumproduct(Truncate(Sheet(f))).status = "ok"
  /\ calculate_deficiency_totals(Truncate(Sheet(f))).status = "ok"

\* the aggregate tables a run over the list fs computes (<<>> for none)
AggTables(fs) ==
  LET st == RunLoop(fs, Len(fs))
  IN  IF NothingProcessed(st.disciplines_list, st.deficiencies_list, st.first_table)
      THEN << <<>>, <<>> >>
      ELSE << aggregate_disciplines(st.disciplines_list),
              aggregate_deficiencies(st.deficiencies_list) >>

Permutations(n) ==
  { p \in [1..n -> 1..n] : \A a, b \in 1..n : p[a] = p[b] => a = b }

\* C1: after a run, the aggregate mean of every discipline and of every
\* deficiency is the arithmetic mean of its per-file totals over all the files
\* that were read and passed check_table_structure.
C1_MeanOverAllAcceptedFiles ==
  pc = "done" =>
    LET valid == SelectSeq(files, Accepted)
    IN  valid # <<>> =>
          /\ Len(all_disciplines) = NumDisciplines
          /\ \A d \in 1..NumDisciplines :
               all_disciplines[d].mean =
                 Mean([n \in 1..Len(valid) |-> DisciplinesOf(valid[n])[d].total])
          /\ Len(all_deficiencies) = NumWeighted
          /\ \A j \in 1..NumWeighted :
               all_deficiencies[j].mean =
                 Mean([n \in 1..Len(valid) |-> DeficienciesOf(valid[n])[j].total])

\* C2: the aggregate tables do not depend on the order of the file list: every
\* permutation of the list yields the tables this run computed.
C2_OrderIndependent ==
  pc = "done" =>
    \A p \in Permutations(Len(files)) :
      AggTables([n \in 1..Len(files) |-> files[p[n]]])
        = << all_disciplines, all_deficiencies >>

\* C3: every number the calculators take from an accepted table (the 7 weights
\* of row 1 and the 13x7 scores of rows 3..15, kept in numeric_data as the
\* loop extracts them) is present and within [0, 10].
C3_AcceptedNumbersInRange ==
  \A e \in 1..Len(numeric_data) :
    /\ \A j \in 1..NumWeighted : Between(numeric_data[e].importance[j])
    /\ \A n \in 1..NumDisciplines, j \in 1..NumWeighted :
         Between(numeric_data[e].scores[n][j])

\* C4: a file that cannot be read or fails check_table_structure gets exactly
\* one line of the error log, adds nothing to the per-file lists, and the loop
\* goes on through the remaining files; a run that returns with such a file
\* and with a valid file (one both calculators give a result for) has saved a
\* non-empty aggregate.
C4_FileFailureIsFileScoped ==
  /\ \A n \in Processed :
       ~Accepted(files[n]) =>
         /\ Cardinality({ l \in 1..Len(log) : log[l].file = n }) = 1
         /\ RunLoop(files, n).disciplines_list = RunLoop(files, n - 1).disciplines_list
         /\ RunLoop(files, n).deficiencies_list = RunLoop(files, n - 1).deficiencies_list
  /\ (pc = "loop" /\ idx > 1) =>
       /\ disciplines_list = RunLoop(files, idx - 1).disciplines_list
       /\ deficiencies_list = RunLoop(files, idx - 1).deficiencies_list
  /\ (pc = "done" /\ files # <<>>) => idx = Len(files) + 1
  /\ (/\ pc = "done"
      /\ \E n \in 1..Len(files) : ~Accepted(files[n])
      /\ \E n \in 1..Len(files) : Computable(files[n]))
       => saved # <<>> /\ all_disciplines # <<>> /\ all_deficiencies # <<>>

\* C5: when no file produced per-file results (no file found, or every file
\* skipped), nothing is aggregated, save_results is not called, and the last
\* line of the log, written before the return, is the run-level failure.
C5_NoResultsNoOutput ==
  (Ended /\ disciplines_list = <<>>) =>
    /\ pc = "done"
    /\ saved = <<>>
    /\ all_disciplines = <<>>
    /\ all_deficiencies = <<>>
    /\ log # <<>>
    /\ log[Len(log)].kind \in {"no_files", "none_processed"}

C5_Witness ==
  /\ pc = "done"
  /\ Len(files) >= 2
  /\ disciplines_list = <<>>
  /\ first_table # <<>>

\* the ranks of tbl, whose totals are in field fld, are competition ranks:
\* 1 + the number of strictly greater totals, hence ordered like the totals,
\* shared by equal totals, 1 for the largest, all within 1..k
CompetitionRanked(tbl, fld) ==
  \A x \in 1..Len(tbl) :
    /\ tbl[x].rank = 1 + Cardinality({ y \in 1..Len(tbl) : FLt(tbl[x][fld], tbl[y][fld]) })
    /\ tbl[x].rank \in 1..Len(tbl)
    /\ (\A y \in 1..Len(tbl) : ~FLt(tbl[x][fld], tbl[y][fld])) => tbl[x].rank = 1
    /\ \A y \in 1..Len(tbl) :
         /\ FLt(tbl[y][fld], tbl[x][fld]) => tbl[x].rank <= tbl[y].rank
         /\ tbl[y][fld] = tbl[x][fld] => tbl[x].rank = tbl[y].rank

\* C6: in every per-file table and in both aggregate tables, the rank of an
\* entity is 1 + the number of entities with a strictly greater total.
C6_CompetitionRanking ==
  /\ \A n \in 1..Len(disciplines_list) : CompetitionRanked(disciplines_list[n], "total")
  /\ \A n \in 1..Len(deficiencies_list) : CompetitionRanked(deficiencies_list[n], "total")
  /\ CompetitionRanked(all_disciplines, "mean")
  /\ CompetitionRanked(all_deficiencies, "mean")

\* a tie is followed by a skipped rank
TieThenGap(tbl) ==
  \E x, y, z \in 1..Len(tbl) :
    x # y /\ tbl[x].rank = tbl[y].rank /\ tbl[z].rank >= tbl[x].rank + 2

C6_Witness ==
  /\ saved # <<>>
  /\ TieThenGap(all_disciplines)
  /\ TieThenGap(disciplines_list[1])
  /\ \E x, y \in 1..NumWeighted :
       /\ all_deficiencies[x].rank = 1
       /\ all_deficiencies[y].rank = NumWeighted

CodeOrder ==
  << "columns", "rows", "headers", "labels", "marker", "importance", "numbers",
     "scores" >>

\* the checks in the order the specification lists them
SpecOrder ==
  << "columns", "headers", "rows", "labels", "marker", "importance", "numbers",
     "scores" >>

HasColumns(df, cols) ==
  \A j \in 1..Len(cols) : \E c \in 1..Len(df.columns) : df.columns[c] = cols[j]

\* the table df violates check c, whatever the other checks say of it (a cell
\* of a missing row or column counts as a violation)
Violates(c, df) ==
  CASE c = "columns" -> Len(df.columns) < MinColumns
    [] c = "rows" -> Len(df.rows) < MinRows
    [] c = "headers" ->
         \/ Len(df.columns) < MinColumns
         \/ \E k \in 1..MinColumns : df.columns[k] # expected_columns[k]
    [] c = "labels" ->
         \/ ~HasColumns(df, checked_columns)
         \/ \E j \in 1..NumChecked :
              LET x == df.rows[1][Col(df, checked_columns[j])]
              IN  x.k # "str" \/ x.s # DEFICIENCIES[j]
    [] c = "marker" ->
         LET x == df.rows[1][Col(df, "Unnamed: 1")]
         IN  x.k # "str" \/ x.s # expected_nb
    [] c = "importance" ->
         \/ ~HasColumns(df, checked_columns)
         \/ \E j \in 1..NumChecked :
              LET x == to_numeric(df.rows[2][Col(df, checked_columns[j])])
              IN  ~IsNum(x) \/ x.num < 0 \/ x.num > MaxScore * x.den
    [] c = "numbers" ->
         \/ Len(df.rows) < MinRows
         \/ \E n \in 1..NumDisciplines : df.rows[n + 3][1] # Int2(n)
    [] OTHER ->
         \/ ~HasColumns(df, checked_columns)
         \/ Len(df.rows) < MinRows
         \/ \E n \in 1..NumDisciplines, j \in 1..NumChecked :
              LET x == to_numeric(df.rows[n + 3][Col(df, checked_columns[j])])
              IN  ~IsNum(x) \/ x.num < 0 \/ x.num > MaxScore * x.den

\* the first check of order that df violates, "ok" when it violates none
FirstViolated(order, df) ==
  IF \A k \in 1..Len(order) : ~Violates(order[k], df) THEN "ok"
  ELSE order[CHOOSE k \in 1..Len(order) :
               /\ Violates(order[k], df)
               /\ \A h \in 1..(k - 1) : ~Violates(order[h], df)]

\* the check whose failure was printed for the n-th file, "ok" when none was
Reported(n) ==
  LET failed == { l \in 1..Len(printed) :
                    printed[l].file = n
                      /\ printed[l].kind \notin {"read_error", "unhandled"} }
  IN  IF failed = {} THEN "ok"
      ELSE LET kind == printed[CHOOSE l \in failed : TRUE].kind
           IN  CASE kind \in {"importance_nan", "importance_range"} -> "importance"
                 [] kind \in {"scores_nan", "scores_range"} -> "scores"
                 [] OTHER -> kind

\* C8 as stated: the failure check_table_structure reports is the first
\* violated check in the order columns, headers, rows, labels, marker,
\* importance, numbers, scores.
C8_FirstFailureInSpecOrder ==
  \A n \in Processed :
    files[n].readable => Reported(n) = FirstViolated(SpecOrder, Sheet(files[n]))

\* C8 as amended: the failure check_table_structure reports is the first
\* violated check in the order columns, rows, headers, labels, marker,
\* importance, numbers, scores.
C8_FirstFailureInCodeOrder ==
  \A n \in Processed :
    files[n].readable => Reported(n) = FirstViolated(CodeOrder, Sheet(files[n]))

C8_Witness ==
  \E n \in Processed :
    /\ files[n].readable
    /\ Violates("rows", Sheet(files[n]))
    /\ Violates("headers", Sheet(files[n]))
    /\ Violates("marker", Sheet(files[n]))
    /\ ~Violates("columns", Sheet(files[n]))
    /\ Reported(n) = "rows"

\* C9: for every accepted table calculate_sumproduct returns 13 rows in
\* DISCIPLINES order, the total of discipline d being the sum over the 7
\* weighted columns of weight times score; with all weights 10 and all scores
\* 5 every total is 350 and every rank 1.  The loop keeps that result.
C9_SumproductOfAcceptedTable ==
  \A n \in Processed :
    Accepted(files[n]) =>
      LET df == Sheet(files[n])
          result == calculate_sumproduct(Truncate(df))
          weight(j) == to_numeric(df.rows[2][j + 2])
          score(d, j) == to_numeric(df.rows[d + 3][j + 2])
      IN  /\ result.status = "ok"
          /\ Len(result.rows) = NumDisciplines
          /\ \A d \in 1..NumDisciplines :
               /\ result.rows[d].name = DISCIPLINES[d]
               /\ result.rows[d].total =
                    SumSeq([j \in 1..NumWeighted |-> FMul(weight(j), score(d, j))])
          /\ ((\A j \in 1..NumWeighted :
                 /\ weight(j) = Int2(10)
                 /\ \A d \in 1..NumDisciplines : score(d, j) = Int2(5))
                => \A d \in 1..NumDisciplines :
                     result.rows[d].total = Int2(350) /\ result.rows[d].rank = 1)
          /\ (\A m \in 1..(n - 1) : ~Accepted(files[m]))
               => disciplines_list = << result.rows >>

\* C10: in a run whose files all passed check_table_structure and that
\* reached the report stage, the divisor (10 times the sum of the 7 weights) is
\* not zero, no absolute rating exceeds it, and every relative rating is a
\* number between 0 and 100.
C10_RelativeRatingIsPercentage ==
  (/\ Ended
   /\ \A n \in 1..Len(files) : Accepted(files[n])
   /\ disciplines_list # <<>>) =>
     /\ pc = "done"
     /\ first_table[1].mainabs_rating.num # 0
     /\ \A d \in 1..NumDisciplines :
          /\ FLe(first_table[1].abs_rating[d], first_table[1].mainabs_rating)
          /\ FLe(Int2(0), first_table[1].rel_rating[d])
          /\ FLe(first_table[1].rel_rating[d], Int2(100))

====
